---- MODULE Spec2Model ----
(***************************************************************************)
(* Handwritten Data Extractor: the view controller of src/App.tsx, the     *)
(* extraction client of src/services/geminiService.ts (both variants kept  *)
(* in that file) and the CSV serializer of src/App.tsx.                    *)
(*                                                                         *)
(* JavaScript values are records tagged by kind.  Strings are sequences    *)
(* of one-character strings (CSV text) or of message fragments (error      *)
(* messages), so that join, split, replace and includes are computed.      *)
(***************************************************************************)
EXTENDS Integers, Sequences, FiniteSets, TLC

VARIABLES
    ai,             \* geminiService.ts: the module-level client, TRUE when constructed
    variant,        \* which extractDataFromImage of geminiService.ts is built
    mounted,        \* App: the mount effect (useEffect, []) has run
    imageFile,      \* App state: useState<File | null>
    imageDataUrl,   \* App state: useState<string | null>, the preview handle
    extractedData,  \* App state: useState<ExtractedData | null>
    isLoading,      \* App state: useState<boolean>
    error,          \* App state: useState<string | null>
    configError,    \* App state: useState<string | null>
    pending,        \* handleExtractData invocations suspended at an await
    started,        \* number of handleExtractData invocations that passed the guards
    netCalls,       \* number of ai.models.generateContent requests issued
    encodeFailed,   \* number of invocations whose fileToBase64 rejected
    urlsCreated,    \* number of URL.createObjectURL handles handed out
    artifact,       \* the text of the last CSV blob saved, or Null
    lastEvent,      \* the event handled by the last step
    csvIn,          \* serializer harness: the data given to convertToCsv
    csvOut          \* serializer harness: what convertToCsv returned

vars == <<ai, variant, mounted, imageFile, imageDataUrl, extractedData, isLoading,
          error, configError, pending, started, netCalls, encodeFailed, urlsCreated,
          artifact, lastEvent, csvIn, csvOut>>

appState == <<imageFile, imageDataUrl, extractedData, isLoading, error, configError>>

(***************************************************************************)
(* Bounds of the model.                                                    *)
(***************************************************************************)
MaxExtracts == 3
MaxUrls == 3
MaxRows == 2

(***************************************************************************)
(* JavaScript values.                                                      *)
(***************************************************************************)
Null == [kind |-> "null"]
Undefined == [kind |-> "undefined"]
Str(s) == [kind |-> "string", s |-> s]
Num(n) == [kind |-> "number", n |-> n]
Arr(items) == [kind |-> "array", items |-> items]
Obj(keys, get) == [kind |-> "object", keys |-> keys, get |-> get]

\* ToBoolean, as used by !x, x || y and {x && ...}
Truthy(v) ==
    CASE v.kind \in {"null", "undefined"} -> FALSE
      [] v.kind = "string" -> v.s # <<>>
      [] v.kind = "number" -> v.n # 0
      [] OTHER -> TRUE

\* x || y
OrElse(x, y) == IF Truthy(x) THEN x ELSE y

\* what a function call produced: a returned value or a thrown one
Return(v) == [threw |-> FALSE, value |-> v]
Throw(e) == [threw |-> TRUE, value |-> e]

\* new Error(message); a thrown value that is no Error (a ProgressEvent, a string)
MkError(m) == [kind |-> "Error", message |-> m]
NonError == [kind |-> "NonError"]
TypeErr == MkError(<<"TypeError">>)

Range(s) == {s[i] : i \in 1..Len(s)}

\* Array.prototype.join
RECURSIVE Join(_, _)
Join(ss, sep) ==
    IF ss = <<>> THEN <<>>
    ELSE IF Len(ss) = 1 THEN ss[1]
    ELSE ss[1] \o sep \o Join(Tail(ss), sep)

\* String.prototype.split with a one-character separator
RECURSIVE Split(_, _)
Split(s, c) ==
    IF \A i \in 1..Len(s) : s[i] # c THEN <<s>>
    ELSE LET i == CHOOSE k \in 1..Len(s) : s[k] = c /\ \A j \in 1..(k - 1) : s[j] # c
         IN <<SubSeq(s, 1, i - 1)>> \o Split(SubSeq(s, i + 1, Len(s)), c)

DoubleQuotesOmitted(s) == s

\* String.prototype.replace(/"/g, '""')
RECURSIVE DoubleQuotes(_)
DoubleQuotes(s) ==
    IF s = <<>> THEN <<>>
    ELSE (IF Head(s) = "\"" THEN <<"\"", "\"">> ELSE <<Head(s)>>) \o DoubleQuotes(Tail(s))

\* String.prototype.includes for a message held as a sequence of fragments
Includes(m, frag) == \E i \in 1..Len(m) : m[i] = frag

(***************************************************************************)
(* JavaScript objects as JSON.parse builds them and Object.keys lists      *)
(* them: array-index keys first, ascending, then the other keys in order   *)
(* of insertion.  A repeated key keeps its first position and its last     *)
(* value.                                                                  *)
(***************************************************************************)
Digits == {"0", "1", "2", "3", "4", "5", "6", "7", "8", "9"}

DigitVal(c) ==
    CASE c = "0" -> 0 [] c = "1" -> 1 [] c = "2" -> 2 [] c = "3" -> 3 [] c = "4" -> 4
      [] c = "5" -> 5 [] c = "6" -> 6 [] c = "7" -> 7 [] c = "8" -> 8 [] c = "9" -> 9

IsIndex(k) ==
    /\ Len(k) >= 1
    /\ \A i \in 1..Len(k) : k[i] \in Digits
    /\ Len(k) > 1 => k[1] # "0"

RECURSIVE IndexVal(_)
IndexVal(k) ==
    IF k = <<>> THEN 0 ELSE 10 * IndexVal(SubSeq(k, 1, Len(k) - 1)) + DigitVal(k[Len(k)])

RECURSIVE Dedup(_)
Dedup(ks) ==
    IF ks = <<>> THEN <<>>
    ELSE LET init == Dedup(SubSeq(ks, 1, Len(ks) - 1))
             last == ks[Len(ks)]
         IN IF last \in Range(init) THEN init ELSE Append(init, last)

RECURSIVE Ascending(_)
Ascending(S) ==
    IF S = {} THEN <<>>
    ELSE LET m == CHOOSE k \in S : \A j \in S : IndexVal(k) <= IndexVal(j)
         IN <<m>> \o Ascending(S \ {m})

OwnKeys(inserted) ==
    Ascending({k \in Range(inserted) : IsIndex(k)})
        \o SelectSeq(inserted, LAMBDA k : ~IsIndex(k))

\* members: the "key": value pairs of a JSON object, in the order of the text
MakeObject(members) ==
    LET inserted == Dedup([i \in 1..Len(members) |-> members[i][1]])
        lastOf(k) == CHOOSE i \in 1..Len(members) :
                        /\ members[i][1] = k
                        /\ \A j \in (i + 1)..Len(members) : members[j][1] # k
    IN Obj(OwnKeys(inserted), [k \in Range(inserted) |-> members[lastOf(k)][2]])

\* Object.keys(v)
ObjectKeys(v) ==
    CASE v.kind \in {"null", "undefined"} -> Throw(TypeErr)
      [] v.kind = "object" -> Return(v.keys)
      [] v.kind = "number" -> Return(<<>>)

\* v[k]
GetProp(v, k) ==
    CASE v.kind \in {"null", "undefined"} -> Throw(TypeErr)
      [] v.kind = "object" -> Return(IF k \in DOMAIN v.get THEN v.get[k] ELSE Undefined)
      [] v.kind = "number" -> Return(Undefined)

\* data.length
LengthOf(v) == IF v.kind = "array" THEN Num(Len(v.items)) ELSE GetProp(v, <<"length">>).value

\* data[0]
First(v) ==
    IF v.kind = "array"
    THEN (IF Len(v.items) >= 1 THEN v.items[1] ELSE Undefined)
    ELSE GetProp(v, <<"0">>).value

(***************************************************************************)
(* CSV serializer (App.tsx).                                               *)
(***************************************************************************)
CellWithoutDefault(row, header) ==
    LET p == GetProp(row, header)
    IN IF p.threw THEN p
       ELSE IF p.value.kind = "string"
            THEN Return(<<"\"">> \o DoubleQuotes(p.value.s) \o <<"\"">>)
            ELSE Throw(TypeErr)

\* `"${(row[header] || '').replace(/"/g, '""')}"`
Cell(row, header) ==
    LET p == GetProp(row, header)
    IN IF p.threw THEN p
       ELSE LET v == OrElse(p.value, Str(<<>>))
            IN IF v.kind = "string"
               THEN Return(<<"\"">> \o DoubleQuotes(v.s) \o <<"\"">>)
               ELSE Throw(TypeErr)

\* headers.map(header => ...).join(',')
RowLine(row, headers) ==
    LET cells == [i \in 1..Len(headers) |-> Cell(row, headers[i])]
    IN IF \E i \in 1..Len(headers) : cells[i].threw
       THEN Throw(TypeErr)
       ELSE Return(Join([i \in 1..Len(headers) |-> cells[i].value], <<",">>))

convertToCsv(data) ==
    IF ~Truthy(data) \/ LengthOf(data) = Num(0) THEN Return(Str(<<>>))
    ELSE LET hs == ObjectKeys(First(data))
         IN IF hs.threw THEN hs
            ELSE IF data.kind # "array" THEN Throw(TypeErr)
            ELSE LET headers == hs.value
                     headerRow == Join(headers, <<",">>)
                     rows == [i \in 1..Len(data.items) |-> RowLine(data.items[i], headers)]
                 IN IF \E i \in 1..Len(rows) : rows[i].threw
                    THEN Throw(TypeErr)
                    ELSE Return(Str(Join(<<headerRow>> \o
                                         [i \in 1..Len(rows) |-> rows[i].value], <<"\n">>)))

\* DataTable: the <th> texts and, per <tr>, the <td> contents {row[header]};
\* rendered only for a non-empty array
DataTable(data) ==
    LET headers == ObjectKeys(First(data)).value
    IN [columns |-> headers,
        body |-> [i \in 1..Len(data.items) |->
                    [j \in 1..Len(headers) |-> GetProp(data.items[i], headers[j]).value]]]

(***************************************************************************)
(* Extraction client (services/geminiService.ts).                          *)
(***************************************************************************)
NotConfiguredMsg ==
    <<"Application not configured: API Key is missing. Please ensure the API_KEY environment variable is set for the deployment environment.">>
MalformedMsg ==
    <<"The AI returned data in an unexpected format. This can sometimes happen with complex handwriting. Please try again or use a clearer image.">>
FailedPrefix == <<"Failed to process image with Gemini API: ">>
UnknownMsg == <<"An unknown error occurred while processing the image.">>

isApiConfigured == ai

\* Response texts of the service.  Object members are listed in text order.
TextEmptyArray == "[]"
TextPadded == "  []\n"
TextFixedRow == "[{\"row\":\"1\",\"J\":\"a\",\"K\":\"b\",\"L\":\"c\"}]"
TextQuoteCell == "[{\"J\":\"8\\\"\"},{\"J\":\"a,b\"}]"
TextRagged == "[{\"a\":\"1\",\"b\":\"2\"},{\"a\":\"3\"}]"
TextIndexKeys == "[{\"b\":\"x\",\"2\":\"y\",\"1\":\"z\"}]"
TextNull == "null"
TextObject == "{\"a\":\"1\"}"
TextHtml == "<html>"
TextEmpty == ""

ResponseTexts ==
    {TextEmptyArray, TextPadded, TextFixedRow, TextQuoteCell, TextRagged, TextIndexKeys,
     TextNull, TextObject, TextHtml, TextEmpty}

\* String.prototype.trim
Trim(t) == IF t = TextPadded THEN TextEmptyArray ELSE t

\* JSON.parse: the value, or the SyntaxError the engine throws
JSONParse(t) ==
    CASE t = TextEmptyArray -> Return(Arr(<<>>))
      [] t = TextFixedRow ->
            Return(Arr(<<MakeObject(<< <<<<"r", "o", "w">>, Str(<<"1">>)>>,
                                       <<<<"J">>, Str(<<"a">>)>>,
                                       <<<<"K">>, Str(<<"b">>)>>,
                                       <<<<"L">>, Str(<<"c">>)>> >>)>>))
      [] t = TextQuoteCell ->
            Return(Arr(<<MakeObject(<< <<<<"J">>, Str(<<"8", "\"">>)>> >>),
                         MakeObject(<< <<<<"J">>, Str(<<"a", ",", "b">>)>> >>)>>))
      [] t = TextRagged ->
            Return(Arr(<<MakeObject(<< <<<<"a">>, Str(<<"1">>)>>, <<<<"b">>, Str(<<"2">>)>> >>),
                         MakeObject(<< <<<<"a">>, Str(<<"3">>)>> >>)>>))
      [] t = TextIndexKeys ->
            Return(Arr(<<MakeObject(<< <<<<"b">>, Str(<<"x">>)>>,
                                       <<<<"2">>, Str(<<"y">>)>>,
                                       <<<<"1">>, Str(<<"z">>)>> >>)>>))
      [] t = TextNull -> Return(Null)
      [] t = TextObject -> Return(MakeObject(<< <<<<"a">>, Str(<<"1">>)>> >>))
      [] t = TextHtml ->
            Throw(MkError(<<"Unexpected token '<', \"<html>\" is not valid ", "JSON">>))
      [] t = TextEmpty -> Throw(MkError(<<"Unexpected end of ", "JSON", " input">>))
      [] t = TextPadded -> Return(Arr(<<>>))

\* How ai.models.generateContent settles: a response with text, a response
\* whose text getter yields undefined, or a rejection.
ServiceErrors ==
    {MkError(<<"fetch failed">>), MkError(<<"Invalid ", "JSON", " payload received.">>)}

Outcomes ==
    {[kind |-> "text", text |-> t] : t \in ResponseTexts}
        \cup {[kind |-> "notext"]}
        \cup {[kind |-> "reject", err |-> e] : e \in ServiceErrors \cup {NonError}}

\* the try block after the await: response.text.trim(), JSON.parse
ParseResponse(o) ==
    CASE o.kind = "reject" -> Throw(o.err)
      [] o.kind = "notext" ->
            Throw(MkError(<<"Cannot read properties of undefined (reading 'trim')">>))
      [] o.kind = "text" -> JSONParse(Trim(o.text))

\* the catch block of the first variant (fixed schema)
CatchFixed(e) ==
    IF e.kind = "Error"
    THEN Throw(MkError(FailedPrefix \o e.message))
    ELSE Throw(MkError(UnknownMsg))

\* the catch block of the second variant (dynamic headers)
CatchDynamic(e) ==
    IF e.kind = "Error"
    THEN (IF Includes(e.message, "JSON")
          THEN Throw(MkError(MalformedMsg))
          ELSE Throw(MkError(FailedPrefix \o e.message)))
    ELSE Throw(MkError(UnknownMsg))

\* extractDataFromImage once the service call has settled with outcome o
extractSettled(mode, o) ==
    LET r == ParseResponse(o)
    IN IF ~r.threw THEN r
       ELSE IF mode = "fixed" THEN CatchFixed(r.value) ELSE CatchDynamic(r.value)

\* extractDataFromImage up to the service call: throws when there is no client
extractBegin(client) ==
    IF ~client THEN Throw(MkError(NotConfiguredMsg)) ELSE Return("call")

(***************************************************************************)
(* View controller (App.tsx).                                              *)
(***************************************************************************)
ConfigErrorMsg ==
    <<"Configuration Error: The API key is not set. This application is non-functional. Please ensure the API_KEY environment variable is configured for deployment.">>
ValidationMsg == <<"Please select a valid image file (JPG, JPEG, PNG).">>
UploadFirstMsg == <<"Please upload an image first.">>
UnexpectedMsg == <<"An unexpected error occurred.">>

File(name, type) == [kind |-> "file", name |-> name, type |-> type]
Url(n) == [kind |-> "url", id |-> n]

\* what the file picker can hand to handleFileChange; Undefined is an empty FileList
Files ==
    {File("scan.png", "image/png"), File("scan.jpeg", "image/jpeg"),
     File("scan.jpg", "image/jpg"), File("notes.txt", "text/plain")}
Selections == Files \cup {Undefined}

AcceptedType(file) ==
    /\ Truthy(file)
    /\ (file.type = "image/jpeg" \/ file.type = "image/jpg" \/ file.type = "image/png")

\* const finalError = configError || error
finalError == OrElse(configError, error)

\* <input type="file" disabled={!!configError}>
FileInputDisabled == Truthy(configError)

ExtractDisabledIgnoresLoading == ~Truthy(imageFile) \/ Truthy(configError)

ExtractDisabledIgnoresFile == isLoading \/ Truthy(configError)

\* <button onClick={handleExtractData} disabled={!imageFile || isLoading || !!configError}>
ExtractDisabled == ~Truthy(imageFile) \/ isLoading \/ Truthy(configError)

DownloadDisabledOnlyNull == ~Truthy(extractedData)

\* <button onClick={handleDownload} disabled={!extractedData || extractedData.length === 0}>
DownloadDisabled == ~Truthy(extractedData) \/ LengthOf(extractedData) = Num(0)

mountEffectSkipped == UNCHANGED configError

\* the results panel: {finalError && ...} and
\* {extractedData && extractedData.length > 0 && <DataTable .../>}
ShowsError == Truthy(finalError)
ShowsTable ==
    /\ Truthy(extractedData)
    /\ LengthOf(extractedData).kind = "number"
    /\ LengthOf(extractedData).n > 0

\* the preview handles made by URL.createObjectURL; none is ever revoked
LiveHandles == {Url(n) : n \in 1..urlsCreated}

\* useEffect(() => { if (!isApiConfigured()) setConfigError(...) }, [])
mountEffect ==
    configError' = IF ~isApiConfigured THEN Str(ConfigErrorMsg) ELSE configError

handleFileChangeClearsData(file) ==
    /\ IF AcceptedType(file)
       THEN /\ imageFile' = file
            /\ urlsCreated' = urlsCreated + 1
            /\ imageDataUrl' = Url(urlsCreated + 1)
            /\ extractedData' = Null
            /\ error' = Null
       ELSE /\ error' = Str(ValidationMsg)
            /\ imageFile' = Null
            /\ imageDataUrl' = Null
            /\ extractedData' = Null
            /\ UNCHANGED urlsCreated
    /\ UNCHANGED <<isLoading, configError>>

handleFileChange(file) ==
    /\ IF AcceptedType(file)
       THEN /\ imageFile' = file
            /\ urlsCreated' = urlsCreated + 1
            /\ imageDataUrl' = Url(urlsCreated + 1)
            /\ extractedData' = Null
            /\ error' = Null
       ELSE /\ error' = Str(ValidationMsg)
            /\ imageFile' = Null
            /\ imageDataUrl' = Null
            /\ UNCHANGED <<extractedData, urlsCreated>>
    /\ UNCHANGED <<isLoading, configError>>

handleExtractDataKeepsError ==
    IF Truthy(configError)
    THEN UNCHANGED <<appState, pending, started>>
    ELSE IF ~Truthy(imageFile)
    THEN /\ error' = Str(UploadFirstMsg)
         /\ UNCHANGED <<imageFile, imageDataUrl, extractedData, isLoading, configError,
                        pending, started>>
    ELSE /\ isLoading' = TRUE
         /\ extractedData' = Null
         /\ started' = started + 1
         /\ pending' = pending \cup
                {[id |-> started + 1, stage |-> "encoding", file |-> imageFile]}
         /\ UNCHANGED <<imageFile, imageDataUrl, configError, error>>

\* handleExtractData up to its first await
handleExtractData ==
    IF Truthy(configError)
    THEN UNCHANGED <<appState, pending, started>>
    ELSE IF ~Truthy(imageFile)
    THEN /\ error' = Str(UploadFirstMsg)
         /\ UNCHANGED <<imageFile, imageDataUrl, extractedData, isLoading, configError,
                        pending, started>>
    ELSE /\ isLoading' = TRUE
         /\ error' = Null
         /\ extractedData' = Null
         /\ started' = started + 1
         /\ pending' = pending \cup
                {[id |-> started + 1, stage |-> "encoding", file |-> imageFile]}
         /\ UNCHANGED <<imageFile, imageDataUrl, configError>>

\* catch (err) { setError(err instanceof Error ? err.message : "...") }
caught(e) == IF e.kind = "Error" THEN Str(e.message) ELSE Str(UnexpectedMsg)

\* fileToBase64 resolved: extractDataFromImage is entered and either throws at
\* once (catch, finally) or issues the request and suspends
afterEncode(inv) ==
    LET b == extractBegin(ai)
    IN IF b.threw
       THEN /\ error' = caught(b.value)
            /\ isLoading' = FALSE
            /\ pending' = pending \ {inv}
            /\ UNCHANGED netCalls
       ELSE /\ netCalls' = netCalls + 1
            /\ pending' = (pending \ {inv}) \cup {[inv EXCEPT !.stage = "calling"]}
            /\ UNCHANGED <<error, isLoading>>

\* fileToBase64 rejected with the reader's event: catch, finally
afterEncodeError(inv) ==
    /\ error' = caught(NonError)
    /\ isLoading' = FALSE
    /\ pending' = pending \ {inv}
    /\ encodeFailed' = encodeFailed + 1

afterExtractRetries(inv, o) ==
    LET r == extractSettled(variant, o)
    IN IF r.threw
       THEN /\ netCalls' = netCalls + 1
            /\ UNCHANGED <<error, extractedData, isLoading, pending>>
       ELSE /\ extractedData' = r.value
            /\ isLoading' = FALSE
            /\ pending' = pending \ {inv}
            /\ UNCHANGED <<error, netCalls>>

afterExtractStaysLoading(inv, o) ==
    LET r == extractSettled(variant, o)
    IN /\ IF r.threw
          THEN error' = caught(r.value) /\ UNCHANGED extractedData
          ELSE extractedData' = r.value /\ UNCHANGED error
       /\ isLoading' = r.threw
       /\ pending' = pending \ {inv}
       /\ UNCHANGED netCalls

\* extractDataFromImage settled: setExtractedData or catch, then finally
afterExtract(inv, o) ==
    LET r == extractSettled(variant, o)
    IN /\ IF r.threw
          THEN error' = caught(r.value) /\ UNCHANGED extractedData
          ELSE extractedData' = r.value /\ UNCHANGED error
       /\ isLoading' = FALSE
       /\ pending' = pending \ {inv}
       /\ UNCHANGED netCalls

\* downloadCsv(data); saved tells whether link.click() ran
downloadCsv(data, supported, saved) ==
    IF ~Truthy(data) \/ LengthOf(data) = Num(0)
    THEN ~saved /\ UNCHANGED artifact
    ELSE LET csv == convertToCsv(data)
         IN IF ~csv.threw /\ supported
            THEN saved /\ artifact' = csv.value
            ELSE ~saved /\ UNCHANGED artifact

handleDownload(supported, saved) ==
    IF Truthy(extractedData)
    THEN downloadCsv(extractedData, supported, saved)
    ELSE ~saved /\ UNCHANGED artifact

(***************************************************************************)
(* The program: the mount effect, the user's actions on the three          *)
(* controls, and the completions of the reader and of the service.         *)
(* React flushes the mount effect before it handles any later event, so    *)
(* the controls act only once mounted.  A click on a disabled control, or  *)
(* a selection on the disabled input, is an event that runs no handler.    *)
(* Each handler runs to its next await in one step; the continuations of   *)
(* a settled promise (catch, finally) run in the step that settles it.     *)
(***************************************************************************)
Init ==
    /\ ai \in BOOLEAN
    /\ variant \in {"fixed", "dynamic"}
    /\ mounted = FALSE
    /\ imageFile = Null
    /\ imageDataUrl = Null
    /\ extractedData = Null
    /\ isLoading = FALSE
    /\ error = Null
    /\ configError = Null
    /\ pending = {}
    /\ started = 0
    /\ netCalls = 0
    /\ encodeFailed = 0
    /\ urlsCreated = 0
    /\ artifact = Null
    /\ lastEvent = [op |-> "none"]
    /\ csvIn = Null
    /\ csvOut = Null

Mount ==
    /\ ~mounted
    /\ mounted' = TRUE
    /\ mountEffect
    /\ lastEvent' = [op |-> "mount"]
    /\ UNCHANGED <<ai, variant, imageFile, imageDataUrl, extractedData, isLoading, error,
                   pending, started, netCalls, encodeFailed, urlsCreated, artifact,
                   csvIn, csvOut>>

SelectFile(f) ==
    /\ mounted
    /\ AcceptedType(f) => urlsCreated < MaxUrls
    /\ lastEvent' = [op |-> "select", file |-> f, enabled |-> ~FileInputDisabled]
    /\ IF FileInputDisabled
       THEN UNCHANGED <<appState, urlsCreated>>
       ELSE handleFileChange(f)
    /\ UNCHANGED <<ai, variant, mounted, pending, started, netCalls, encodeFailed,
                   artifact, csvIn, csvOut>>

ClickExtract ==
    /\ mounted
    /\ ~ExtractDisabled => started < MaxExtracts
    /\ lastEvent' = [op |-> "extract", enabled |-> ~ExtractDisabled]
    /\ IF ExtractDisabled
       THEN UNCHANGED <<appState, pending, started>>
       ELSE handleExtractData
    /\ UNCHANGED <<ai, variant, mounted, netCalls, encodeFailed, urlsCreated, artifact,
                   csvIn, csvOut>>

EncodeDone(inv) ==
    /\ inv.stage = "encoding"
    /\ afterEncode(inv)
    /\ lastEvent' = [op |-> "encoded", id |-> inv.id]
    /\ UNCHANGED <<ai, variant, mounted, imageFile, imageDataUrl, extractedData,
                   configError, started, encodeFailed, urlsCreated, artifact,
                   csvIn, csvOut>>

EncodeError(inv) ==
    /\ inv.stage = "encoding"
    /\ afterEncodeError(inv)
    /\ lastEvent' = [op |-> "encodeError", id |-> inv.id]
    /\ UNCHANGED <<ai, variant, mounted, imageFile, imageDataUrl, extractedData,
                   configError, started, netCalls, urlsCreated, artifact, csvIn, csvOut>>

ServiceSettle(inv, o) ==
    /\ inv.stage = "calling"
    /\ afterExtract(inv, o)
    /\ lastEvent' = [op |-> "settled", id |-> inv.id, file |-> inv.file, outcome |-> o]
    /\ UNCHANGED <<ai, variant, mounted, imageFile, imageDataUrl, configError, started,
                   encodeFailed, urlsCreated, artifact, csvIn, csvOut>>

ClickDownload ==
    /\ mounted
    /\ \E supported, saved \in BOOLEAN :
          /\ lastEvent' = [op |-> "download", enabled |-> ~DownloadDisabled,
                           saved |-> saved]
          /\ IF DownloadDisabled
             THEN ~saved /\ UNCHANGED artifact
             ELSE handleDownload(supported, saved)
    /\ UNCHANGED <<ai, variant, mounted, appState, pending, started, netCalls,
                   encodeFailed, urlsCreated, csvIn, csvOut>>

Next ==
    \/ Mount
    \/ \E f \in Selections : SelectFile(f)
    \/ ClickExtract
    \/ \E inv \in pending : EncodeDone(inv)
    \/ \E inv \in pending : EncodeError(inv)
    \/ \E inv \in pending, o \in Outcomes : ServiceSettle(inv, o)
    \/ ClickDownload

Spec == Init /\ [][Next]_vars

(***************************************************************************)
(* The controller's display states (spec section 4.4).                     *)
(***************************************************************************)
Loading == isLoading
Idle == ~isLoading /\ ~Truthy(imageFile) /\ extractedData = Null /\ ~Truthy(finalError)
Ready == ~isLoading /\ Truthy(imageFile) /\ extractedData = Null /\ ~Truthy(finalError)
Reviewed == ~isLoading /\ extractedData # Null
Errored == ~isLoading /\ extractedData = Null /\ Truthy(finalError)

Outstanding == {inv \in pending : inv.stage \in {"encoding", "calling"}}
InFlight == {inv \in pending : inv.stage = "calling"}

(***************************************************************************)
(* C1.  Under every interleaving of file selections, Extract clicks,       *)
(* Download clicks and completions, at most one extraction is outstanding: *)
(* no second handleExtractData invocation starts while one is suspended.   *)
(***************************************************************************)
C1_AtMostOneOutstanding ==
    /\ Cardinality(Outstanding) <= 1
    /\ (Outstanding # {}) => isLoading

\* an Extract click arrived while a request was in flight and started nothing
C1_Witness ==
    /\ Cardinality(InFlight) = 1
    /\ lastEvent = [op |-> "extract", enabled |-> FALSE]

(***************************************************************************)
(* C2.  With no credential at startup no request is ever issued: no        *)
(* extraction starts, the client throws the not-configured error before    *)
(* any call, the configuration flag never changes, and once mounted the    *)
(* message shown is the configuration error.                               *)
(***************************************************************************)
C2_UnconfiguredNeverCalls ==
    /\ [](~ai => /\ netCalls = 0
                 /\ pending = {}
                 /\ ~isLoading
                 /\ extractBegin(ai) = Throw(MkError(NotConfiguredMsg))
                 /\ mounted => finalError = Str(ConfigErrorMsg))
    /\ [][ai' = ai]_vars

\* unconfigured, and the user has just tried the Extract control
C2_Witness ==
    /\ ~ai
    /\ lastEvent = [op |-> "extract", enabled |-> FALSE]
    /\ finalError = Str(ConfigErrorMsg)

(***************************************************************************)
(* C3.  From any state, selecting a valid image (image/jpeg, image/jpg,    *)
(* image/png) leaves extractedData null, no error, and the controller      *)
(* Ready: image selected, not loading, Extract enabled.                    *)
(***************************************************************************)
C3_SelectValidGivesReady ==
    [][(/\ lastEvent'.op = "select"
        /\ lastEvent'.enabled
        /\ lastEvent'.file.kind = "file"
        /\ lastEvent'.file.type \in {"image/jpeg", "image/jpg", "image/png"})
       => (/\ extractedData' = Null
           /\ error' = Null
           /\ imageFile' = lastEvent'.file
           /\ ~isLoading'
           /\ ~ExtractDisabled')]_vars

(***************************************************************************)
(* C4.  As claimed: the Extract action changes nothing and starts nothing  *)
(* unless the controller is Ready.                                         *)
(***************************************************************************)
C4_ExtractOnlyFromReady ==
    [][(lastEvent'.op = "extract" /\ ~Ready)
       => UNCHANGED <<appState, pending, started, netCalls>>]_vars

(***************************************************************************)
(* C4, amended.  The Extract action is a no-op when no image is selected,  *)
(* while loading, or while unconfigured; an extraction starts only by an   *)
(* Extract action taken with an image selected, not loading and            *)
(* configured (Ready, and also Reviewed or Errored with the image kept).   *)
(***************************************************************************)
C4_ExtractOnlyWhenEnabled ==
    [][/\ (lastEvent'.op = "extract" /\ (~Truthy(imageFile) \/ isLoading \/ ~ai))
          => UNCHANGED <<appState, pending, started, netCalls>>
       /\ (started' # started \/ Cardinality(pending') > Cardinality(pending))
          => (/\ lastEvent'.op = "extract"
              /\ Truthy(imageFile) /\ ~isLoading /\ ai
              /\ started' = started + 1)]_vars

\* an Extract click while Loading that changed nothing, after an earlier one
\* taken from Reviewed or Errored had started a second extraction
C4_Witness ==
    /\ lastEvent = [op |-> "extract", enabled |-> FALSE]
    /\ isLoading
    /\ started = 2

(***************************************************************************)
(* C5.  Selecting a file whose type is none of image/jpeg, image/jpg,      *)
(* image/png sets the validation error, clears the selected image and the  *)
(* preview, and leaves extractedData as it was.                            *)
(***************************************************************************)
C5_InvalidSelection ==
    [][(/\ lastEvent'.op = "select"
        /\ lastEvent'.enabled
        /\ lastEvent'.file.kind = "file"
        /\ lastEvent'.file.type \notin {"image/jpeg", "image/jpg", "image/png"})
       => (/\ error' = Str(ValidationMsg)
           /\ finalError' = Str(ValidationMsg)
           /\ imageFile' = Null
           /\ imageDataUrl' = Null
           /\ extractedData' = extractedData)]_vars

\* a text/plain file was selected over extracted rows, which are still there
C5_Witness ==
    /\ lastEvent.op = "select"
    /\ lastEvent.enabled
    /\ lastEvent.file.kind = "file"
    /\ lastEvent.file.type = "text/plain"
    /\ extractedData.kind = "array"
    /\ error = Str(ValidationMsg)
    /\ imageFile = Null

(***************************************************************************)
(* C6.  When the service returns text that is not valid JSON, the          *)
(* extraction fails with the fixed malformed-response message, never with  *)
(* a message carrying the parser's exception text.                         *)
(***************************************************************************)
C6_MalformedResponseMessage ==
    (/\ lastEvent.op = "settled"
     /\ lastEvent.outcome.kind = "text"
     /\ JSONParse(Trim(lastEvent.outcome.text)).threw)
    => error = Str(MalformedMsg)

(***************************************************************************)
(* C7.  Every failure of the service call that is not a JSON parse failure *)
(* is reported as the service-error message wrapping the underlying        *)
(* message, never as the malformed-response message.                       *)
(***************************************************************************)
C7_OtherFailuresWrapped ==
    (/\ lastEvent.op = "settled"
     /\ lastEvent.outcome.kind = "reject"
     /\ lastEvent.outcome.err.kind = "Error")
    => /\ error = Str(FailedPrefix \o lastEvent.outcome.err.message)
       /\ error # Str(MalformedMsg)

(***************************************************************************)
(* C8.  No retry and no caching: every started extraction whose image was  *)
(* encoded has issued exactly one request, and a request is issued only by *)
(* the continuation of a user-started extraction, one at a time, never by  *)
(* the step that handles a settled call.                                   *)
(***************************************************************************)
C8_OneCallPerExtract ==
    /\ [](netCalls + encodeFailed
            + Cardinality({inv \in pending : inv.stage = "encoding"}) = started)
    /\ [][netCalls' # netCalls
           => (netCalls' = netCalls + 1 /\ lastEvent'.op = "encoded")]_vars

\* the same image, selected once, extracted twice: two requests, the second
\* started by the user after the first had failed, and none after it failed
C8_Witness ==
    /\ urlsCreated = 1
    /\ started = 2
    /\ netCalls = 2
    /\ pending = {}
    /\ lastEvent.op = "settled"
    /\ lastEvent.outcome.kind = "reject"
    /\ Truthy(error)

(***************************************************************************)
(* C9.  A CSV artifact is saved only when extractedData is a non-empty     *)
(* sequence, and the Download control is disabled whenever extractedData   *)
(* is null or empty.                                                       *)
(***************************************************************************)
C9_DownloadOnlyNonEmpty ==
    /\ [](lastEvent.op = "download" =>
            /\ lastEvent.saved =>
                  /\ extractedData.kind = "array"
                  /\ Len(extractedData.items) >= 1
                  /\ lastEvent.enabled
                  /\ artifact.kind = "string"
            /\ (extractedData = Null \/ extractedData = Arr(<<>>)) =>
                  ~lastEvent.enabled /\ ~lastEvent.saved)
    /\ [][artifact' # artifact => (lastEvent'.op = "download" /\ lastEvent'.saved)]_vars

\* rows were extracted and the Download click saved their CSV text
C9_Witness ==
    /\ lastEvent.op = "download"
    /\ lastEvent.saved
    /\ extractedData.kind = "array"
    /\ Len(extractedData.items) = 2
    /\ artifact = convertToCsv(extractedData).value

(***************************************************************************)
(* The serializer on its own: convertToCsv applied to every table whose    *)
(* rows are JSON objects with the member names and cell texts below.       *)
(* A table is given as the service writes it, each row a sequence of       *)
(* <<name, value>> members in text order; rows after the first take the    *)
(* first row's names in the same order and may omit any of them.           *)
(***************************************************************************)
CsvKeys == {<<"J">>, <<"a", ",", "b">>, <<"1">>}
CsvCells == {<<>>, <<"8", "\"">>, <<"x", "\n", "y">>}
Absent == [kind |-> "absent"]

\* the orders in which at most two distinct names can appear in a row
HeaderOrders ==
    {<<>>} \cup {<<k>> : k \in CsvKeys}
           \cup {h \in {<<k1, k2>> : k1 \in CsvKeys, k2 \in CsvKeys} : h[1] # h[2]}

FirstRows(h) ==
    {[i \in 1..Len(h) |-> <<h[i], Str(f[i])>>] : f \in [1..Len(h) -> CsvCells]}

LaterRows(h) ==
    {SelectSeq([i \in 1..Len(h) |-> <<h[i], f[i]>>], LAMBDA m : m[2] # Absent) :
        f \in [1..Len(h) -> {Str(c) : c \in CsvCells} \cup {Absent}]}

RECURSIVE Tables(_, _)
Tables(h, n) ==
    IF n = 1 THEN {<<r>> : r \in FirstRows(h)}
    ELSE {Append(t, r) : t \in Tables(h, n - 1), r \in LaterRows(h)}

CsvTables == UNION {Tables(h, n) : h \in HeaderOrders, n \in 1..MaxRows}

\* what JSON.parse makes of a table
Parsed(rows) == Arr([i \in 1..Len(rows) |-> MakeObject(rows[i])])

CsvInputs ==
    {Null, [kind |-> "rows", rows |-> <<>>]}
        \cup {[kind |-> "rows", rows |-> t] : t \in CsvTables}

DataOf(input) == IF input.kind = "rows" THEN Parsed(input.rows) ELSE Null

InitCsv ==
    /\ ai = TRUE
    /\ variant = "dynamic"
    /\ mounted = FALSE
    /\ imageFile = Null
    /\ imageDataUrl = Null
    /\ extractedData = Null
    /\ isLoading = FALSE
    /\ error = Null
    /\ configError = Null
    /\ pending = {}
    /\ started = 0
    /\ netCalls = 0
    /\ encodeFailed = 0
    /\ urlsCreated = 0
    /\ artifact = Null
    /\ lastEvent = [op |-> "none"]
    /\ csvIn \in CsvInputs
    /\ csvOut = Null

Serialize ==
    /\ csvOut = Null
    /\ csvOut' = convertToCsv(DataOf(csvIn))
    /\ lastEvent' = [op |-> "serialize"]
    /\ UNCHANGED <<ai, variant, mounted, appState, pending, started, netCalls,
                   encodeFailed, urlsCreated, artifact, csvIn>>

NextCsv == Serialize

SpecCsv == InitCsv /\ [][NextCsv]_vars

Serialized == lastEvent.op = "serialize"

(***************************************************************************)
(* C10.  For every table with at least one row, the first line of the CSV  *)
(* text split on ',' has as many fields as row 0 has keys, and the text    *)
(* has one further line per row: line count = 1 + row count.               *)
(***************************************************************************)
C10_HeaderFieldsAndLineCount ==
    (Serialized /\ csvIn.kind = "rows" /\ Len(csvIn.rows) >= 1)
    => /\ ~csvOut.threw
       /\ LET lines == Split(csvOut.value.s, "\n")
          IN /\ Len(Split(lines[1], ",")) = Len(DataOf(csvIn).items[1].keys)
             /\ Len(lines) = 1 + Len(csvIn.rows)

(***************************************************************************)
(* A reader of the CSV text, to state what the text says: records are      *)
(* separated by newlines and fields by commas outside quotes; a quoted     *)
(* field is read by dropping the enclosing quotes and un-doubling.         *)
(***************************************************************************)
RECURSIVE Scan(_, _, _, _, _)
Scan(s, c, inQuotes, cur, acc) ==
    IF s = <<>> THEN Append(acc, cur)
    ELSE IF Head(s) = c /\ ~inQuotes
    THEN Scan(Tail(s), c, inQuotes, <<>>, Append(acc, cur))
    ELSE Scan(Tail(s), c, IF Head(s) = "\"" THEN ~inQuotes ELSE inQuotes,
              Append(cur, Head(s)), acc)

SplitOutsideQuotes(s, c) == Scan(s, c, FALSE, <<>>, <<>>)

RECURSIVE Undouble(_)
Undouble(s) ==
    IF s = <<>> THEN <<>>
    ELSE IF Len(s) >= 2 /\ s[1] = "\"" /\ s[2] = "\""
    THEN <<"\"">> \o Undouble(SubSeq(s, 3, Len(s)))
    ELSE <<Head(s)>> \o Undouble(Tail(s))

IsQuoted(raw) == Len(raw) >= 2 /\ raw[1] = "\"" /\ raw[Len(raw)] = "\""
Unquote(raw) == Undouble(SubSeq(raw, 2, Len(raw) - 1))

\* the text's first line, and the raw fields of the records after it
HeaderLine(text) == Split(text, "\n")[1]
BodyOf(text) == SubSeq(text, Len(HeaderLine(text)) + 2, Len(text))
Records(text) ==
    LET lines == SplitOutsideQuotes(BodyOf(text), "\n")
    IN [i \in 1..Len(lines) |-> SplitOutsideQuotes(lines[i], ",")]

\* the member names of a row in the order the response first gives them
NamesOf(members) == Dedup([i \in 1..Len(members) |-> members[i][1]])
HasName(members, k) == \E i \in 1..Len(members) : members[i][1] = k
ValueOf(members, k) ==
    members[CHOOSE i \in 1..Len(members) :
                /\ members[i][1] = k
                /\ \A j \in (i + 1)..Len(members) : members[j][1] # k][2]

SerializedRows == Serialized /\ csvIn.kind = "rows" /\ Len(csvIn.rows) >= 1

(***************************************************************************)
(* C11.  The CSV header row and the table's columns are the keys of the    *)
(* first row in the order the response first gives them, not reordered,    *)
(* for every key set, with one table row per data row.                     *)
(***************************************************************************)
C11_HeaderOrderOfAppearance ==
    SerializedRows
    => /\ ~csvOut.threw
       /\ HeaderLine(csvOut.value.s) = Join(NamesOf(csvIn.rows[1]), <<",">>)
       /\ DataTable(DataOf(csvIn)).columns = NamesOf(csvIn.rows[1])
       /\ Len(DataTable(DataOf(csvIn)).body) = Len(csvIn.rows)

(***************************************************************************)
(* C12.  Every data cell is written wrapped in double quotes with each     *)
(* embedded double quote doubled: reading the quoted field back, quotes    *)
(* dropped and un-doubled, gives the cell's value.                         *)
(***************************************************************************)
C12_QuotedCellsRoundTrip ==
    SerializedRows
    => /\ ~csvOut.threw
       /\ LET headers == DataOf(csvIn).items[1].keys
              recs == Records(csvOut.value.s)
          IN /\ Len(recs) = Len(csvIn.rows)
             /\ \A i \in 1..Len(csvIn.rows) :
                   Len(headers) >= 1 =>
                      /\ Len(recs[i]) = Len(headers)
                      /\ \A j \in 1..Len(headers) :
                            /\ IsQuoted(recs[i][j])
                            /\ HasName(csvIn.rows[i], headers[j]) =>
                                 Unquote(recs[i][j]) = ValueOf(csvIn.rows[i], headers[j]).s

\* the cell 8" was written as "8"""
C12_Witness ==
    /\ Serialized
    /\ csvIn = [kind |-> "rows", rows |-> << << <<<<"J">>, Str(<<"8", "\"">>)>> >> >>]
    /\ csvOut = Return(Str(<<"J", "\n", "\"", "8", "\"", "\"", "\"">>))

(***************************************************************************)
(* C13.  convertToCsv does not fail on a row that lacks a header key: the  *)
(* missing cell is written as an empty quoted string; and for null and     *)
(* for an empty sequence it returns the empty string.                      *)
(***************************************************************************)
C13_MissingKeysAndEmptyInput ==
    Serialized
    => /\ ~csvOut.threw
       /\ (csvIn = Null \/ (csvIn.kind = "rows" /\ csvIn.rows = <<>>))
             => csvOut.value = Str(<<>>)
       /\ SerializedRows =>
             LET headers == DataOf(csvIn).items[1].keys
                 recs == Records(csvOut.value.s)
             IN \A i \in 1..Len(csvIn.rows), j \in 1..Len(headers) :
                   ~HasName(csvIn.rows[i], headers[j]) => recs[i][j] = <<"\"", "\"">>

\* the second row lacks the key J and its cell was written as ""
C13_Witness ==
    /\ Serialized
    /\ csvIn.kind = "rows"
    /\ Len(csvIn.rows) = 2
    /\ NamesOf(csvIn.rows[1]) = <<<<"J">>>>
    /\ csvIn.rows[2] = <<>>
    /\ ~csvOut.threw
    /\ Records(csvOut.value.s)[2] = <<<<"\"", "\"">>>>

(***************************************************************************)
(* C14.  In every reachable state extractedData is null, an empty          *)
(* sequence, or a non-empty sequence of rows that all have the key set of  *)
(* the first row, whatever JSON value the service returns.                 *)
(***************************************************************************)
KeySet(row) == Range(row.keys)

C14_ConsistentHeaderSet ==
    \/ extractedData = Null
    \/ /\ extractedData.kind = "array"
       /\ \A i \in 1..Len(extractedData.items) :
             /\ extractedData.items[i].kind = "object"
             /\ KeySet(extractedData.items[i]) = KeySet(extractedData.items[1])

(***************************************************************************)
(* C15.  When the service call of an extraction completes, loading is      *)
(* cleared; on success the returned data is shown with no error, on        *)
(* failure an error message is shown with null data.                       *)
(***************************************************************************)
C15_SettledOutcome ==
    /\ lastEvent.op = "settled" =>
          /\ ~isLoading
          /\ LET r == extractSettled(variant, lastEvent.outcome)
             IN IF r.threw
                THEN Truthy(error) /\ extractedData = Null
                ELSE extractedData = r.value /\ error = Null
    /\ lastEvent.op = "encodeError" =>
          ~isLoading /\ Truthy(error) /\ extractedData = Null

(***************************************************************************)
(* C16.  The preview handle superseded by a new selection is released:     *)
(* at most one preview handle is live after any sequence of selections.    *)
(***************************************************************************)
C16_AtMostOneLiveHandle == Cardinality(LiveHandles) <= 1

(***************************************************************************)
(* C17.  Rows that an extraction sets are rows of the currently selected   *)
(* image: a selection made while the extraction was in flight, valid or    *)
(* not, does not leave the earlier image's rows beside a different or a    *)
(* cleared selection.                                                      *)
(***************************************************************************)
C17_RowsOfSelectedImage ==
    (lastEvent.op = "settled" /\ extractedData # Null)
    => imageFile = lastEvent.file

(***************************************************************************)
(* C18.  isLoading is true exactly when an extraction is outstanding       *)
(* (encoding or calling); loading starts with error and extractedData      *)
(* null, and while it lasts only a file selection changes either.          *)
(***************************************************************************)
C18_LoadingIffOutstanding ==
    /\ [](isLoading <=> Outstanding # {})
    /\ [][(~isLoading /\ isLoading') => (error' = Null /\ extractedData' = Null)]_vars
    /\ [][(isLoading /\ isLoading' /\ lastEvent'.op # "select")
            => UNCHANGED <<error, extractedData>>]_vars

\* a second extraction, started from Errored, is in flight with no error shown
C18_Witness ==
    /\ isLoading
    /\ InFlight # {}
    /\ started = 2
    /\ lastEvent.op = "encoded"
    /\ error = Null
    /\ extractedData = Null

(***************************************************************************)
(* C19.  As claimed: the results panel never shows an error message and a  *)
(* data table at the same time.                                            *)
(***************************************************************************)
C19_NeverErrorAndTable == ~(ShowsError /\ ShowsTable)

(***************************************************************************)
(* C19, amended.  An error shown together with a data table is the         *)
(* file-validation message of an invalid selection, which keeps the rows;  *)
(* an error of an extraction or of the configuration is never shown with   *)
(* a data table.                                                           *)
(***************************************************************************)
C19_OnlyValidationErrorWithTable ==
    (ShowsError /\ ShowsTable) => finalError = Str(ValidationMsg)

\* rows of a second extraction kept under the validation message of a
\* later invalid selection
C19_Witness ==
    /\ ShowsError
    /\ ShowsTable
    /\ finalError = Str(ValidationMsg)
    /\ lastEvent.op = "select"
    /\ started = 2

====
